---- MODULE Spec2Model ----
(***************************************************************************)
(* Breathing pacer (src/app.py): the percentage normalisation and the      *)
(* phase durations computed by create_breathing_app, and the animation     *)
(* loop run_breathing_animation with its cooperative stop flag             *)
(* st.session_state.running.                                               *)
(*                                                                         *)
(* Real-valued quantities (seconds, progress) are exact rationals          *)
(* <<numerator, denominator>> in lowest terms.  On the whole widget domain *)
(* (inhale, exhale in 10..80, hold in 0..80) the double-precision          *)
(* int(p * (100 / total)) of the source equals the exact                   *)
(* floor(p * 100 / total); rounding of the double-precision durations and  *)
(* progress values is not modelled.                                        *)
(***************************************************************************)
EXTENDS Integers, Sequences, FiniteSets, TLC

VARIABLES
    pc,                  \* position of the script / of the animation loop
    breaths_per_minute,  \* slider value (line 17)
    total_cycle_time,    \* line 26
    inhale_percent,      \* line 33, overwritten by line 49
    exhale_percent,      \* line 36, overwritten by line 50
    hold_percent,        \* line 39, overwritten by line 51
    total_percent,       \* line 42
    inhale_time,         \* line 56
    exhale_time,         \* line 57
    hold_time,           \* line 58
    viz_style,           \* line 68
    running,             \* st.session_state.running
    i,                   \* loop variable of the for loops (lines 114, 141)
    elapsed,             \* time.time() - hold_start (line 131)
    frames,              \* frames shown on viz_placeholder during this run
    labels,              \* headings shown on instruction_placeholder during this run
    slept,               \* suspension requested from time.sleep since the last heading
    cycle,               \* iterations of the while loop begun in this run
    stop_pc,             \* position of the loop when the stop request arrived ("" if none)
    after_stop,          \* <<frames, headings, suspensions>> begun after the stop request
    failed,              \* frames shown when a render error was raised (-1 if none)
    prev_failed,         \* the previous run ended in the except handler
    widgets              \* what the sidebar widgets hold now (lines 17-72)

vars == <<pc, breaths_per_minute, total_cycle_time, inhale_percent, exhale_percent,
          hold_percent, total_percent, inhale_time, exhale_time, hold_time, viz_style,
          running, i, elapsed, frames, labels, slept, cycle, stop_pc, after_stop,
          failed, prev_failed, widgets>>

(***************************************************************************)
(* Program constants.                                                      *)
(***************************************************************************)
MinRate == 1
MaxRate == 30
DefaultRate == 6
MinPhase == 10
MaxPhase == 80
MinHold == 0
MaxHold == 80
DefaultInhale == 40
DefaultExhale == 40
DefaultHold == 20
Steps == 20
Styles == {"Circle", "Lung", "Wave"}

(***************************************************************************)
(* Bounds of the model.                                                    *)
(***************************************************************************)
\* iterations of the while loop followed in one run
MaxCycles == 2
\* a wake-up from time.sleep(0.1) is late by 0..MaxLate tenths of a second
MaxLate == 1
\* values per percentage widget in the grid of SpecDur
GridPoints == 15

(***************************************************************************)
(* Exact arithmetic standing for the float operations of the source.       *)
(***************************************************************************)
RECURSIVE GCD(_, _)
GCD(a, b) == IF b = 0 THEN a ELSE GCD(b, a % b)

Rat(n, d) == LET g == GCD(n, d) IN <<n \div g, d \div g>>

RatMul(a, b) == Rat(a[1] * b[1], a[2] * b[2])

RatDivInt(a, k) == Rat(a[1], a[2] * k)

RatAdd(a, b) ==
    LET l == (a[2] * b[2]) \div GCD(a[2], b[2])
    IN  Rat(a[1] * (l \div a[2]) + b[1] * (l \div b[2]), l)

RatLess(a, b) == a[1] * b[2] < b[1] * a[2]

\* a - b, for a >= b
RatSub(a, b) ==
    LET l == (a[2] * b[2]) \div GCD(a[2], b[2])
    IN  Rat(a[1] * (l \div a[2]) - b[1] * (l \div b[2]), l)

Zero == Rat(0, 1)

One == Rat(1, 1)

(***************************************************************************)
(* create_breathing_app: validation of the percentages (lines 41-53).      *)
(***************************************************************************)
\* Scaled with the quotient rounded up instead of truncated
ScaledRoundUp(p, total) == (p * 100 + total - 1) \div total

\* Scaled with round() in place of int()
ScaledRoundNearest(p, total) == (2 * p * 100 + total) \div (2 * total)

\* int(p * scale_factor) with scale_factor = 100 / total (lines 48-50)
Scaled(p, total) == (p * 100) \div total

\* Normalize without the guard of line 43 and with int() applied to p / total
\* before the multiplication by 100
NormalizeTruncFirst(inh, exh, hld) ==
    LET total == inh + exh + hld
        a == (inh \div total) * 100
        b == (exh \div total) * 100
    IN  [inhale |-> a, exhale |-> b, hold |-> 100 - a - b, total |-> total]

\* Normalize with the remainder given to inhale in place of hold
NormalizeRemainderToInhale(inh, exh, hld) ==
    LET total == inh + exh + hld
    IN  IF total # 100
        THEN LET b == Scaled(exh, total)
                 c == Scaled(hld, total)
             IN  [inhale |-> 100 - b - c, exhale |-> b, hold |-> c, total |-> total]
        ELSE [inhale |-> inh, exhale |-> exh, hold |-> hld, total |-> total]

\* Normalize with hold scaled like the other two, no remainder taken
NormalizeHoldScaled(inh, exh, hld) ==
    LET total == inh + exh + hld
    IN  IF total # 100
        THEN [inhale |-> Scaled(inh, total), exhale |-> Scaled(exh, total),
              hold |-> Scaled(hld, total), total |-> total]
        ELSE [inhale |-> inh, exhale |-> exh, hold |-> hld, total |-> total]

\* lines 42-51: the percentages are rescaled to a sum of 100 when their sum is not
\* 100, hold taking what the two truncations leave
Normalize(inh, exh, hld) ==
    LET total == inh + exh + hld
    IN  IF total # 100
        THEN LET a == Scaled(inh, total)
                 b == Scaled(exh, total)
             IN  [inhale |-> a, exhale |-> b, hold |-> 100 - a - b, total |-> total]
        ELSE [inhale |-> inh, exhale |-> exh, hold |-> hld, total |-> total]

(***************************************************************************)
(* create_breathing_app: cycle length and phase durations (lines 26,       *)
(* 55-58).                                                                 *)
(***************************************************************************)
TotalCycleTime(bpm) == Rat(60, bpm)

PhaseTime(percent, cycle_time) == RatMul(Rat(percent, 100), cycle_time)

\* ToDurations with hold_time computed from exhale_percent
ToDurationsHoldFromExhale(inh, exh, hld, bpm) ==
    LET t == TotalCycleTime(bpm)
    IN  [total |-> t,
         inhale |-> PhaseTime(inh, t),
         exhale |-> PhaseTime(exh, t),
         hold |-> PhaseTime(exh, t)]

ToDurations(inh, exh, hld, bpm) ==
    LET t == TotalCycleTime(bpm)
    IN  [total |-> t,
         inhale |-> PhaseTime(inh, t),
         exhale |-> PhaseTime(exh, t),
         hold |-> PhaseTime(hld, t)]

(***************************************************************************)
(* The script before any animation has run: no frame, no heading, and      *)
(* st.session_state.running created as False (lines 86-87).                *)
(***************************************************************************)
NoAnimation ==
    /\ running = FALSE
    /\ i = 0
    /\ elapsed = Zero
    /\ frames = <<>>
    /\ labels = <<>>
    /\ slept = Zero
    /\ cycle = 0
    /\ stop_pc = ""
    /\ after_stop = <<0, 0, 0>>
    /\ failed = -1
    /\ prev_failed = FALSE

animation_vars == <<running, i, elapsed, frames, labels, slept, cycle, stop_pc,
                    after_stop, failed, prev_failed>>

(***************************************************************************)
(* The arithmetic of create_breathing_app on its own, one statement group  *)
(* per step: the widgets have been read (lines 17-39), then lines 41-53,   *)
(* then lines 55-58.                                                       *)
(***************************************************************************)
\* the values held by the slider, the three number inputs and the selectbox
WidgetState(bpm, inh, exh, hld, style) ==
    [rate |-> bpm, inhale |-> inh, exhale |-> exh, hold |-> hld, style |-> style]

WidgetsRead(bpm, inh, exh, hld) ==
    /\ pc = "input"
    /\ breaths_per_minute = bpm
    /\ total_cycle_time = TotalCycleTime(bpm)
    /\ inhale_percent = inh
    /\ exhale_percent = exh
    /\ hold_percent = hld
    /\ total_percent = 0
    /\ inhale_time = Zero
    /\ exhale_time = Zero
    /\ hold_time = Zero
    /\ viz_style = "Circle"
    /\ widgets = WidgetState(bpm, inh, exh, hld, "Circle")
    /\ NoAnimation

NormalizeStep ==
    /\ pc = "input"
    /\ LET n == Normalize(inhale_percent, exhale_percent, hold_percent)
       IN  /\ total_percent' = n.total
           /\ inhale_percent' = n.inhale
           /\ exhale_percent' = n.exhale
           /\ hold_percent' = n.hold
    /\ pc' = "normalized"
    /\ UNCHANGED <<breaths_per_minute, total_cycle_time, inhale_time, exhale_time,
                   hold_time, viz_style, animation_vars, widgets>>

DurationStep ==
    /\ pc = "normalized"
    /\ LET d == ToDurations(inhale_percent, exhale_percent, hold_percent,
                            breaths_per_minute)
       IN  /\ inhale_time' = d.inhale
           /\ exhale_time' = d.exhale
           /\ hold_time' = d.hold
    /\ pc' = "timed"
    /\ UNCHANGED <<breaths_per_minute, total_cycle_time, inhale_percent,
                   exhale_percent, hold_percent, total_percent, viz_style,
                   animation_vars, widgets>>

\* every value the three number inputs accept, the rate slider at its default
InitNorm ==
    \E inh \in MinPhase..MaxPhase, exh \in MinPhase..MaxPhase, hld \in MinHold..MaxHold :
        WidgetsRead(DefaultRate, inh, exh, hld)

NextNorm == NormalizeStep \/ DurationStep

SpecNorm == InitNorm /\ [][NextNorm]_vars

\* GridPoints evenly spaced values of a widget's range, and its maximum
Grid(lo, hi) ==
    LET step == (hi - lo) \div (GridPoints - 1)
    IN  {lo + k * step : k \in 0..(GridPoints - 1)} \cup {hi}

\* every rate the slider accepts, the percentages on a grid
InitDur ==
    \E bpm \in MinRate..MaxRate :
        \E inh \in Grid(MinPhase, MaxPhase), exh \in Grid(MinPhase, MaxPhase),
           hld \in Grid(MinHold, MaxHold) :
            WidgetsRead(bpm, inh, exh, hld)

NextDur == NormalizeStep \/ DurationStep

SpecDur == InitDur /\ [][NextDur]_vars

(***************************************************************************)
(* run_breathing_animation (lines 106-153), one action per statement that  *)
(* reads the flag, shows something or suspends.  The stop request may      *)
(* arrive between any two of them.                                         *)
(***************************************************************************)
InLoop == pc \notin {"idle", "input", "normalized", "timed"}

\* the counts of after_stop, with count k raised once a stop was requested
Counted(k) == IF stop_pc = "" THEN after_stop ELSE [after_stop EXCEPT ![k] = @ + 1]

config_vars == <<breaths_per_minute, total_cycle_time, inhale_percent, exhale_percent,
                 hold_percent, total_percent, inhale_time, exhale_time, hold_time,
                 viz_style, widgets>>

\* ShapeSize with the circle's size used as its radius (size in place of size/2)
ShapeSizeDiameter(progress, style) ==
    IF style = "Circle" THEN RatAdd(Rat(1, 10), RatMul(progress, Rat(8, 10)))
    ELSE IF style = "Lung" THEN RatMul(Rat(2, 10), progress)
    ELSE RatMul(progress, Rat(4, 10))

\* create_visualization (lines 159-183): the radius of the filled circle (size/2
\* with size = 0.1 + progress * 0.8), the amplitude of the lung curves
\* (0.2 * progress) or of the wave (progress * 0.4)
ShapeSize(progress, style) ==
    IF style = "Circle"
    THEN RatDivInt(RatAdd(Rat(1, 10), RatMul(progress, Rat(8, 10))), 2)
    ELSE IF style = "Lung" THEN RatMul(Rat(2, 10), progress)
    ELSE RatMul(progress, Rat(4, 10))

\* the radius of the dashed reference circle (line 166)
RefRadius == Rat(45, 100)

\* create_visualization(progress, viz_style, phase) shown by viz_placeholder.pyplot
Frame(progress, phase) ==
    [phase |-> phase, progress |-> progress, style |-> viz_style,
     size |-> ShapeSize(progress, viz_style)]

\* run_breathing_animation returns and the script ends: the locals of the loop are
\* gone, what the placeholders show stays on the page
Return ==
    /\ pc' = "idle"
    /\ i' = 0
    /\ elapsed' = Zero
    /\ slept' = Zero
    /\ cycle' = 0

\* WhileRunning with "if" in place of "while": the loop is left after one cycle
WhileRunningOnce ==
    /\ pc = "while"
    /\ IF running /\ cycle = 0
       THEN /\ cycle' = cycle + 1
            /\ pc' = "inhale_label"
            /\ UNCHANGED <<i, elapsed, slept>>
       ELSE Return
    /\ UNCHANGED <<config_vars, running, frames, labels, stop_pc, after_stop, failed,
                   prev_failed>>

\* WhileRunning with an automatic stop: after one cycle the loop lowers the flag
\* itself and returns
WhileRunningAutoStop ==
    /\ pc = "while"
    /\ IF running /\ cycle = 0
       THEN /\ cycle' = cycle + 1
            /\ pc' = "inhale_label"
            /\ UNCHANGED <<running, i, elapsed, slept>>
       ELSE /\ running' = FALSE
            /\ Return
    /\ UNCHANGED <<config_vars, frames, labels, stop_pc, after_stop, failed,
                   prev_failed>>

\* WhileRunning with the durations and the style taken from the widgets again at
\* the top of every cycle
WhileRunningRereads ==
    /\ pc = "while"
    /\ IF running
       THEN /\ cycle < MaxCycles
            /\ cycle' = cycle + 1
            /\ pc' = "inhale_label"
            /\ LET n == Normalize(widgets.inhale, widgets.exhale, widgets.hold)
                   d == ToDurations(n.inhale, n.exhale, n.hold, widgets.rate)
               IN  /\ inhale_time' = d.inhale
                   /\ exhale_time' = d.exhale
                   /\ hold_time' = d.hold
            /\ viz_style' = widgets.style
            /\ UNCHANGED <<i, elapsed, slept>>
       ELSE /\ Return
            /\ UNCHANGED <<inhale_time, exhale_time, hold_time, viz_style>>
    /\ UNCHANGED <<breaths_per_minute, total_cycle_time, inhale_percent, exhale_percent,
                   hold_percent, total_percent, widgets, running, frames, labels,
                   stop_pc, after_stop, failed, prev_failed>>

\* line 109: while st.session_state.running
WhileRunning ==
    /\ pc = "while"
    /\ IF running
       THEN /\ cycle < MaxCycles
            /\ cycle' = cycle + 1
            /\ pc' = "inhale_label"
            /\ UNCHANGED <<i, elapsed, slept>>
       ELSE Return
    /\ UNCHANGED <<config_vars, running, frames, labels, stop_pc, after_stop, failed,
                   prev_failed>>

\* InhaleLabel with the for loop over range(1, steps + 1)
InhaleLabelFromOne ==
    /\ pc = "inhale_label"
    /\ labels' = Append(labels, "Inhale")
    /\ after_stop' = Counted(2)
    /\ slept' = Zero
    /\ i' = 1
    /\ pc' = "inhale_render"
    /\ UNCHANGED <<config_vars, running, elapsed, frames, cycle, stop_pc, failed,
                   prev_failed>>

\* lines 111-114: the Inhale heading, and the for loop starts at i = 0
InhaleLabel ==
    /\ pc = "inhale_label"
    /\ labels' = Append(labels, "Inhale")
    /\ after_stop' = Counted(2)
    /\ slept' = Zero
    /\ i' = 0
    /\ pc' = "inhale_render"
    /\ UNCHANGED <<config_vars, running, elapsed, frames, cycle, stop_pc, failed,
                   prev_failed>>

\* lines 115-118 and 142-145: one frame is produced and shown; an exception raised
\* before the frame is on the display (create_visualization, pyplot) or after it
\* (plt.close) leads to the handler of line 151
Render(at, progress, phase, next) ==
    /\ pc = at
    /\ \/ /\ frames' = Append(frames, Frame(progress, phase))
          /\ after_stop' = Counted(1)
          /\ pc' = next
          /\ UNCHANGED failed
       \/ /\ frames' = frames
          /\ failed' = Len(frames)
          /\ pc' = "except"
          /\ UNCHANGED after_stop
       \/ /\ frames' = Append(frames, Frame(progress, phase))
          /\ after_stop' = Counted(1)
          /\ failed' = Len(frames) + 1
          /\ pc' = "except"
    /\ UNCHANGED <<config_vars, running, i, elapsed, labels, slept, cycle, stop_pc,
                   prev_failed>>

\* lines 119 and 146: time.sleep(phase_time / steps)
Sleep(at, phase_time, next) ==
    /\ pc = at
    /\ slept' = RatAdd(slept, RatDivInt(phase_time, Steps))
    /\ after_stop' = Counted(3)
    /\ pc' = next
    /\ UNCHANGED <<config_vars, running, i, elapsed, frames, labels, cycle, stop_pc,
                   failed, prev_failed>>

\* ForCheck over range(steps) in place of range(steps + 1)
ForCheckRangeSteps(at, again, done) ==
    /\ pc = at
    /\ IF ~running
       THEN pc' = done /\ UNCHANGED i
       ELSE IF i = Steps - 1
            THEN pc' = done /\ UNCHANGED i
            ELSE pc' = again /\ i' = i + 1
    /\ UNCHANGED <<config_vars, running, elapsed, frames, labels, slept, cycle,
                   stop_pc, after_stop, failed, prev_failed>>

\* ForCheck without the test of the flag (lines 121-122, 148-149)
ForCheckNoBreak(at, again, done) ==
    /\ pc = at
    /\ IF i = Steps
       THEN pc' = done /\ UNCHANGED i
       ELSE pc' = again /\ i' = i + 1
    /\ UNCHANGED <<config_vars, running, elapsed, frames, labels, slept, cycle,
                   stop_pc, after_stop, failed, prev_failed>>

\* lines 121-122 and 148-149: break when the flag is down, else the next i of
\* range(steps + 1), the loop ending after i = steps
ForCheck(at, again, done) ==
    /\ pc = at
    /\ IF ~running
       THEN pc' = done /\ UNCHANGED i
       ELSE IF i = Steps
            THEN pc' = done /\ UNCHANGED i
            ELSE pc' = again /\ i' = i + 1
    /\ UNCHANGED <<config_vars, running, elapsed, frames, labels, slept, cycle,
                   stop_pc, after_stop, failed, prev_failed>>

\* lines 124-125 and 136-137: break out of the while loop when the flag is down
BreakCheck(at, next) ==
    /\ pc = at
    /\ IF ~running
       THEN Return
       ELSE pc' = next /\ UNCHANGED <<i, elapsed, slept, cycle>>
    /\ UNCHANGED <<config_vars, running, frames, labels, stop_pc, after_stop, failed,
                   prev_failed>>

InhaleRender == Render("inhale_render", Rat(i, Steps), "inhale", "inhale_sleep")

InhaleSleep == Sleep("inhale_sleep", inhale_time, "inhale_check")

InhaleCheck == ForCheck("inhale_check", "inhale_render", "after_inhale")

\* AfterInhaleCheck without the test of lines 124-125
AfterInhaleNoCheck ==
    /\ pc = "after_inhale"
    /\ pc' = "hold_if"
    /\ UNCHANGED <<config_vars, running, i, elapsed, frames, labels, slept, cycle,
                   stop_pc, after_stop, failed, prev_failed>>

AfterInhaleCheck == BreakCheck("after_inhale", "hold_if")

\* HoldIf with "hold_time >= 0" in place of "hold_time > 0"
HoldIfNotNegative ==
    /\ pc = "hold_if"
    /\ labels' = Append(labels, "Hold")
    /\ after_stop' = Counted(2)
    /\ slept' = Zero
    /\ elapsed' = Zero
    /\ pc' = "hold_while"
    /\ UNCHANGED <<config_vars, running, i, frames, cycle, stop_pc, failed,
                   prev_failed>>

\* lines 128-130: the Hold heading and hold_start, only when hold_time > 0
HoldIf ==
    /\ pc = "hold_if"
    /\ IF RatLess(Zero, hold_time)
       THEN /\ labels' = Append(labels, "Hold")
            /\ after_stop' = Counted(2)
            /\ slept' = Zero
            /\ elapsed' = Zero
            /\ pc' = "hold_while"
       ELSE /\ pc' = "after_hold"
            /\ UNCHANGED <<labels, after_stop, slept, elapsed>>
    /\ UNCHANGED <<config_vars, running, i, frames, cycle, stop_pc, failed,
                   prev_failed>>

\* line 131: while time.time() - hold_start < hold_time
HoldWhile ==
    /\ pc = "hold_while"
    /\ pc' = IF RatLess(elapsed, hold_time) THEN "hold_check" ELSE "after_hold"
    /\ UNCHANGED <<config_vars, running, i, elapsed, frames, labels, slept, cycle,
                   stop_pc, after_stop, failed, prev_failed>>

\* lines 132-133
HoldCheck ==
    /\ pc = "hold_check"
    /\ pc' = IF ~running THEN "after_hold" ELSE "hold_sleep"
    /\ UNCHANGED <<config_vars, running, i, elapsed, frames, labels, slept, cycle,
                   stop_pc, after_stop, failed, prev_failed>>

\* line 134: time.sleep(0.1); the clock has advanced by 0.1 s or more on waking
HoldSleep ==
    /\ pc = "hold_sleep"
    /\ \E late \in 0..MaxLate : elapsed' = RatAdd(elapsed, Rat(1 + late, 10))
    /\ slept' = RatAdd(slept, Rat(1, 10))
    /\ after_stop' = Counted(3)
    /\ pc' = "hold_while"
    /\ UNCHANGED <<config_vars, running, i, frames, labels, cycle, stop_pc, failed,
                   prev_failed>>

\* AfterHoldCheck without the test of lines 136-137
AfterHoldNoCheck ==
    /\ pc = "after_hold"
    /\ pc' = "exhale_label"
    /\ UNCHANGED <<config_vars, running, i, elapsed, frames, labels, slept, cycle,
                   stop_pc, after_stop, failed, prev_failed>>

AfterHoldCheck == BreakCheck("after_hold", "exhale_label")

\* ExhaleLabel with the for loop over range(1, steps + 1)
ExhaleLabelFromOne ==
    /\ pc = "exhale_label"
    /\ labels' = Append(labels, "Exhale")
    /\ after_stop' = Counted(2)
    /\ slept' = Zero
    /\ i' = 1
    /\ pc' = "exhale_render"
    /\ UNCHANGED <<config_vars, running, elapsed, frames, cycle, stop_pc, failed,
                   prev_failed>>

\* lines 140-141: the Exhale heading, and the for loop starts at i = 0
ExhaleLabel ==
    /\ pc = "exhale_label"
    /\ labels' = Append(labels, "Exhale")
    /\ after_stop' = Counted(2)
    /\ slept' = Zero
    /\ i' = 0
    /\ pc' = "exhale_render"
    /\ UNCHANGED <<config_vars, running, elapsed, frames, cycle, stop_pc, failed,
                   prev_failed>>

\* ExhaleRender with progress = i / steps in place of 1 - (i / steps)
ExhaleRenderNotInverted ==
    Render("exhale_render", Rat(i, Steps), "exhale", "exhale_sleep")

ExhaleRender ==
    Render("exhale_render", RatSub(One, Rat(i, Steps)), "exhale", "exhale_sleep")

ExhaleSleep == Sleep("exhale_sleep", exhale_time, "exhale_check")

\* the break of line 149 leaves the for loop only: line 109 is next either way
ExhaleCheck == ForCheck("exhale_check", "exhale_render", "while")

\* ExceptHandler without line 153: the flag stays up
ExceptHandlerKeepsFlag ==
    /\ pc = "except"
    /\ Return
    /\ UNCHANGED <<config_vars, running, frames, labels, stop_pc, after_stop, failed,
                   prev_failed>>

\* lines 151-153: the error is shown, the flag lowered, and the function returns
ExceptHandler ==
    /\ pc = "except"
    /\ running' = FALSE
    /\ Return
    /\ UNCHANGED <<config_vars, frames, labels, stop_pc, after_stop, failed,
                   prev_failed>>

\* lines 92-93 on behalf of a Stop click that arrives while the loop is active: the
\* one writer of the flag besides the handler of line 153 while the loop runs (the
\* Start click is handled by the script, which is inside the loop until it returns)
Stop ==
    /\ InLoop
    /\ running
    /\ running' = FALSE
    /\ stop_pc' = pc
    /\ after_stop' = <<0, 0, 0>>
    /\ UNCHANGED <<pc, config_vars, i, elapsed, frames, labels, slept, cycle, failed,
                   prev_failed>>

(***************************************************************************)
(* create_breathing_app (lines 10-104): one run of the script up to the    *)
(* call of run_breathing_animation.  button is the sidebar button clicked  *)
(* for this run, if any.                                                   *)
(***************************************************************************)
Buttons == {"none", "start", "stop"}

create_breathing_app(bpm, inh, exh, hld, style, button) ==
    /\ pc = "idle"
    /\ LET n == Normalize(inh, exh, hld)
           d == ToDurations(n.inhale, n.exhale, n.hold, bpm)
           r == IF button = "stop" THEN FALSE
                ELSE IF button = "start" THEN TRUE ELSE running
       IN  /\ breaths_per_minute' = bpm
           /\ total_cycle_time' = d.total
           /\ total_percent' = n.total
           /\ inhale_percent' = n.inhale
           /\ exhale_percent' = n.exhale
           /\ hold_percent' = n.hold
           /\ inhale_time' = d.inhale
           /\ exhale_time' = d.exhale
           /\ hold_time' = d.hold
           /\ viz_style' = style
           /\ widgets' = WidgetState(bpm, inh, exh, hld, style)
           /\ running' = r
           /\ pc' = IF r THEN "while" ELSE "idle"
    \* lines 82-83: both placeholders are created empty by every run of the script
    /\ frames' = <<>>
    /\ labels' = <<>>
    /\ i' = 0
    /\ elapsed' = Zero
    /\ slept' = Zero
    /\ cycle' = 0
    /\ stop_pc' = ""
    /\ after_stop' = <<0, 0, 0>>
    /\ failed' = -1
    /\ prev_failed' = (failed # -1)

\* the widget values a run of the script is followed for
RateInputs == {DefaultRate, MaxRate}

PercentInputs == {<<DefaultInhale, DefaultExhale, DefaultHold>>, <<50, 50, 0>>,
                  <<50, 50, 20>>}

StyleInputs == {"Circle", "Wave"}

ScriptRun ==
    \E bpm \in RateInputs, p \in PercentInputs, style \in StyleInputs,
       button \in Buttons :
        create_breathing_app(bpm, p[1], p[2], p[3], style, button)

\* the script has run once with every widget at its default and no button clicked
Init ==
    /\ pc = "idle"
    /\ LET n == Normalize(DefaultInhale, DefaultExhale, DefaultHold)
           d == ToDurations(n.inhale, n.exhale, n.hold, DefaultRate)
       IN  /\ breaths_per_minute = DefaultRate
           /\ total_cycle_time = d.total
           /\ total_percent = n.total
           /\ inhale_percent = n.inhale
           /\ exhale_percent = n.exhale
           /\ hold_percent = n.hold
           /\ inhale_time = d.inhale
           /\ exhale_time = d.exhale
           /\ hold_time = d.hold
    /\ viz_style = "Circle"
    /\ widgets = WidgetState(DefaultRate, DefaultInhale, DefaultExhale, DefaultHold,
                             "Circle")
    /\ NoAnimation

Next ==
    \/ ScriptRun
    \/ WhileRunning
    \/ InhaleLabel
    \/ InhaleRender
    \/ InhaleSleep
    \/ InhaleCheck
    \/ AfterInhaleCheck
    \/ HoldIf
    \/ HoldWhile
    \/ HoldCheck
    \/ HoldSleep
    \/ AfterHoldCheck
    \/ ExhaleLabel
    \/ ExhaleRender
    \/ ExhaleSleep
    \/ ExhaleCheck
    \/ ExceptHandler
    \/ Stop

Spec == Init /\ [][Next]_vars

(***************************************************************************)
(* The same program with a user who moves the sidebar widgets while the    *)
(* loop is active.  The script is inside run_breathing_animation, so the   *)
(* new values are held by the widgets and read by no statement of          *)
(* create_breathing_app until the loop has returned.                       *)
(***************************************************************************)
\* the widget values the user moves to while the loop is active
ChangeInputs == {WidgetState(MaxRate, 50, 50, 0, "Wave"),
                 WidgetState(DefaultRate, DefaultInhale, DefaultExhale, DefaultHold,
                             "Circle")}

WidgetChange ==
    /\ InLoop
    /\ \E w \in ChangeInputs :
           /\ w # widgets
           /\ widgets' = w
    /\ UNCHANGED <<pc, breaths_per_minute, total_cycle_time, inhale_percent,
                   exhale_percent, hold_percent, total_percent, inhale_time,
                   exhale_time, hold_time, viz_style, animation_vars>>

NextInput == Next \/ WidgetChange

SpecInput == Init /\ [][NextInput]_vars

(***************************************************************************)
(* Properties of the normalisation and of the durations.                   *)
(***************************************************************************)

\* C1: whenever the three percentages read from the widgets do not sum to 100, the
\* values after normalisation are each >= 0 (hold included) and sum to exactly 100.
C1_NormalizedNonNegative ==
    (pc # "input" /\ total_percent # 100) =>
        /\ inhale_percent >= 0
        /\ exhale_percent >= 0
        /\ hold_percent >= 0
        /\ inhale_percent + exhale_percent + hold_percent = 100

\* (80, 80, 0) has been normalised to (50, 50, 0): hold at its lowest
C1_Witness ==
    /\ pc = "normalized"
    /\ total_percent = 160
    /\ inhale_percent = 50
    /\ exhale_percent = 50
    /\ hold_percent = 0

\* C6: when the three percentages read from the widgets sum to exactly 100, the
\* normalisation leaves each of them as it was.
C6_IdentityAtHundred ==
    [][(pc = "input" /\ inhale_percent + exhale_percent + hold_percent = 100) =>
        /\ inhale_percent' = inhale_percent
        /\ exhale_percent' = exhale_percent
        /\ hold_percent' = hold_percent]_vars

\* the defaults (40, 40, 20) have passed the validation
C6_Witness ==
    /\ pc = "normalized"
    /\ total_percent = 100
    /\ inhale_percent = DefaultInhale
    /\ exhale_percent = DefaultExhale
    /\ hold_percent = DefaultHold

\* C7: when the sum s of the percentages is not 100, inhale' is the largest integer
\* with inhale' * s <= inhale * 100, likewise exhale', and hold' is
\* 100 - inhale' - exhale'; (50, 50, 20) becomes (41, 41, 18).
C7_FloorAndSlack ==
    [][(pc = "input" /\ pc' = "normalized"
        /\ inhale_percent + exhale_percent + hold_percent # 100) =>
        LET s == inhale_percent + exhale_percent + hold_percent
        IN  /\ inhale_percent' * s <= inhale_percent * 100
            /\ inhale_percent * 100 < (inhale_percent' + 1) * s
            /\ exhale_percent' * s <= exhale_percent * 100
            /\ exhale_percent * 100 < (exhale_percent' + 1) * s
            /\ hold_percent' = 100 - inhale_percent' - exhale_percent'
            /\ (inhale_percent = 50 /\ exhale_percent = 50 /\ hold_percent = 20) =>
                   (inhale_percent' = 41 /\ exhale_percent' = 41 /\ hold_percent' = 18)]_vars

\* a sum of 120 has been normalised to (41, 41, 18)
C7_Witness ==
    /\ pc = "normalized"
    /\ total_percent = 120
    /\ inhale_percent = 41
    /\ exhale_percent = 41
    /\ hold_percent = 18

\* C8: each duration is (percent / 100) * (60 / breaths_per_minute), and the three
\* durations sum to exactly 60 / breaths_per_minute; at 6 breaths per minute
\* 40/40/20 gives 4, 4 and 2 seconds.
C8_DurationsSumToCycle ==
    pc = "timed" =>
        /\ inhale_time[1] * 100 * breaths_per_minute = inhale_percent * 60 * inhale_time[2]
        /\ exhale_time[1] * 100 * breaths_per_minute = exhale_percent * 60 * exhale_time[2]
        /\ hold_time[1] * 100 * breaths_per_minute = hold_percent * 60 * hold_time[2]
        /\ LET sum == RatAdd(RatAdd(inhale_time, exhale_time), hold_time)
           IN  sum[1] * breaths_per_minute = 60 * sum[2]
        /\ (breaths_per_minute = 6 /\ inhale_percent = 40 /\ exhale_percent = 40
            /\ hold_percent = 20) =>
               (inhale_time = <<4, 1>> /\ exhale_time = <<4, 1>> /\ hold_time = <<2, 1>>)

\* a sum of 120 at 7 breaths per minute: durations that are no whole seconds
C8_Witness ==
    /\ pc = "timed"
    /\ breaths_per_minute = 7
    /\ total_percent = 120
    /\ inhale_percent = 41
    /\ hold_percent = 18
    /\ hold_time = Rat(18 * 60, 700)

(***************************************************************************)
(* Properties of the animation loop.                                       *)
(***************************************************************************)
FramesPerPhase == Steps + 1

FramesPerCycle == 2 * FramesPerPhase

\* the k-th frame of a whole cycle: progress 0/20 .. 20/20, then 20/20 .. 0/20
ExpectedFrame(k) ==
    IF k <= FramesPerPhase
    THEN Frame(Rat(k - 1, Steps), "inhale")
    ELSE Frame(Rat(FramesPerCycle - k, Steps), "exhale")

\* the headings of a whole cycle
ExpectedLabels ==
    IF RatLess(Zero, hold_time) THEN <<"Inhale", "Hold", "Exhale">>
    ELSE <<"Inhale", "Exhale">>

\* the loop is back at line 109 after `cycle` whole cycles, no stop requested
CyclesDone == pc = "while" /\ cycle >= 1 /\ running /\ stop_pc = ""

\* C2: after each cycle in which the flag stayed up and no render failed, the frames
\* of the cycle are the 21 Inhale frames 0/20 .. 20/20 in order, then the 21 Exhale
\* frames 20/20 .. 0/20 in order, with a Hold heading in between exactly when
\* hold_time > 0, and nothing else.
C2_OneCycleFrames ==
    CyclesDone =>
        /\ Len(frames) = cycle * FramesPerCycle
        /\ \A k \in 1..Len(frames) :
               frames[k] = ExpectedFrame(((k - 1) % FramesPerCycle) + 1)
        /\ Len(labels) = cycle * Len(ExpectedLabels)
        /\ \A k \in 1..Len(labels) :
               labels[k] = ExpectedLabels[((k - 1) % Len(ExpectedLabels)) + 1]

\* one whole cycle with a hold period has been shown
C2_Witness ==
    /\ CyclesDone
    /\ cycle = 1
    /\ Len(frames) = 42
    /\ labels = <<"Inhale", "Hold", "Exhale">>
    /\ frames[21].progress = One
    /\ frames[42].progress = Zero

\* positions of the loop between the Inhale heading and the test of line 124
InhalePositions == {"inhale_render", "inhale_sleep", "inhale_check", "after_inhale"}

\* C3: when the stop request arrives during the Inhale phase, at most one more frame
\* and one more suspension follow, that frame is an Inhale frame, and no heading
\* (neither Hold nor Exhale) is shown afterwards.
C3_StopDuringInhale ==
    stop_pc \in InhalePositions =>
        /\ after_stop[1] <= 1
        /\ after_stop[3] <= 1
        /\ after_stop[2] = 0
        /\ \A k \in (Len(frames) - after_stop[1] + 1)..Len(frames) :
               frames[k].phase = "inhale"
        /\ labels[Len(labels)] = "Inhale"
        /\ pc \in InhalePositions \cup {"except", "idle"}

\* the stop arrived just before a render of the Inhale phase of a config with a hold
\* period: one more frame, one more suspension, then the function returned
C3_Witness ==
    /\ stop_pc = "inhale_render"
    /\ pc = "idle"
    /\ after_stop = <<1, 0, 1>>
    /\ RatLess(Zero, hold_time)
    /\ Len(frames) = 5

\* C4: wherever the stop request arrives, at most one frame is shown after it.
C4_AtMostOneFrameAfterStop ==
    stop_pc # "" => after_stop[1] <= 1

\* the stop arrived after the test of line 136: the first Exhale frame is still shown
C4_Witness ==
    /\ stop_pc = "exhale_label"
    /\ pc = "idle"
    /\ after_stop[1] = 1
    /\ frames[Len(frames)].phase = "exhale"

\* C5: once a render has raised, no further frame is shown, the handler lowers the
\* flag and the function returns to the script: the session is idle with the flag
\* down, and the next Start click runs the animation again.
C5_RenderErrorContained ==
    /\ failed # -1 =>
        /\ pc \in {"except", "idle"}
        /\ Len(frames) = failed
    /\ pc = "idle" => ~running

\* a run that follows a failed run is showing frames
C5_Witness ==
    /\ prev_failed
    /\ running
    /\ pc = "exhale_sleep"
    /\ failed = -1

\* C9: in an uncancelled cycle the suspension requested during the Inhale phase
\* totals inhale_time, and during the Exhale phase exhale_time.
C9_SuspensionEqualsPhaseTime ==
    /\ (pc = "after_inhale" /\ running /\ stop_pc = "") => slept = inhale_time
    /\ CyclesDone => slept = exhale_time

\* C10: the function returns only after a stop request or a render error, and the
\* frame that follows the last Exhale frame of a cycle is the Inhale frame with
\* progress 0 of the next cycle.
C10_LoopsUntilStopped ==
    /\ (pc = "idle" /\ Len(labels) > 0) => (stop_pc # "" \/ failed # -1)
    /\ \A c \in 1..MaxCycles :
           Len(frames) > c * FramesPerCycle =>
               /\ frames[c * FramesPerCycle] = Frame(Zero, "exhale")
               /\ frames[c * FramesPerCycle + 1] = Frame(Zero, "inhale")
    /\ CyclesDone => Len(frames) = cycle * FramesPerCycle

\* the second cycle has begun with its first Inhale frame
C10_Witness ==
    /\ cycle = 2
    /\ running
    /\ Len(frames) = FramesPerCycle + 1
    /\ frames[FramesPerCycle + 1].progress = Zero
    /\ frames[FramesPerCycle + 1].phase = "inhale"

(***************************************************************************)
(* Writers of the flag.                                                    *)
(***************************************************************************)
\* a step of the script that handles a Start click (lines 89-90)
StartStep == pc = "idle" /\ running' /\ pc' = "while"

\* a step that handles a Stop click (lines 92-93)
StopStep ==
    \/ pc = "idle" /\ ~running' /\ pc' = "idle"
    \/ InLoop /\ ~running' /\ pc' = pc /\ stop_pc' = pc

\* the handler of line 151 lowers the flag (line 153)
HandlerStep == pc = "except" /\ ~running' /\ pc' = "idle"

\* C11 as stated: the flag is down at process start and changes only in a step that
\* handles a Start click (to up) or a Stop click (to down).
C11_OnlyStartStopWrite ==
    /\ ~running
    /\ [][running' # running => (StartStep \/ StopStep)]_vars

\* C11 as amended: the flag is down at process start and changes only in a step that
\* handles a Start click (to up), a Stop click (to down), or in the handler of a
\* render error (to down).
C11_OnlyStartStopHandlerWrite ==
    /\ ~running
    /\ [][running' # running => (StartStep \/ StopStep \/ HandlerStep)]_vars

\* the handler has lowered the flag of a run in which no stop was requested
C11_Witness ==
    /\ pc = "idle"
    /\ ~running
    /\ failed # -1
    /\ stop_pc = ""
    /\ Len(labels) > 0

(***************************************************************************)
(* Properties of the shapes.                                               *)
(***************************************************************************)
\* C12: in every Circle frame the radius of the filled circle is
\* 0.05 + progress * 0.4 (0.05 at progress 0, 0.25 at progress 0.5); it never
\* exceeds the radius 0.45 of the reference circle and equals it exactly at
\* progress 1.
C12_CircleRadius ==
    \A k \in 1..Len(frames) :
        frames[k].style = "Circle" =>
            /\ frames[k].size = RatAdd(Rat(5, 100), RatMul(frames[k].progress, Rat(4, 10)))
            /\ ~RatLess(RefRadius, frames[k].size)
            /\ (frames[k].size = RefRadius) <=> (frames[k].progress = One)
            /\ frames[k].progress = Zero => frames[k].size = <<1, 20>>
            /\ frames[k].progress = <<1, 2>> => frames[k].size = <<1, 4>>

\* a whole Inhale phase of circles has been shown, from radius 0.05 over 0.25 to 0.45
C12_Witness ==
    /\ Len(frames) >= Steps + 1
    /\ frames[1].style = "Circle"
    /\ frames[1].size = <<1, 20>>
    /\ frames[11].size = <<1, 4>>
    /\ frames[Steps + 1].size = <<9, 20>>

(***************************************************************************)
(* Cancellation checkpoints.                                               *)
(***************************************************************************)
\* the positions at which the loop reads the flag (lines 109, 121, 124, 132, 136, 148)
CheckPositions ==
    {"while", "inhale_check", "after_inhale", "hold_check", "after_hold", "exhale_check"}

\* the positions on the way out of the loop once the flag was read as down
LeavingPositions == {"after_inhale", "after_hold", "while", "idle"}

\* the largest number of steps the loop can still take before it returns when the
\* flag is down, by position: from line 128 these are line 128 with the heading,
\* line 131, the break of lines 132-133 and the break of lines 136-137
StepsToReturn(p) ==
    CASE p \in {"while", "after_inhale", "after_hold", "except"} -> 1
      [] p \in {"inhale_check", "hold_check", "exhale_check"} -> 2
      [] p \in {"inhale_sleep", "exhale_sleep", "hold_while"} -> 3
      [] p \in {"inhale_render", "exhale_render", "hold_sleep", "hold_if"} -> 4
      [] p \in {"inhale_label", "exhale_label"} -> 5
      [] OTHER -> 0

\* C13: once the loop reads the flag as down, at whichever checkpoint, it only moves
\* towards its return: no frame, no heading and no new cycle follow; and while the
\* flag is down every step of the loop brings it strictly closer to its return,
\* which is at most five steps away.
C13_StopAtNextCheckpoint ==
    /\ [][(~running /\ pc \in CheckPositions) =>
            /\ pc' \in LeavingPositions
            /\ frames' = frames
            /\ labels' = labels
            /\ cycle' \in {cycle, 0}]_vars
    /\ [][(~running /\ InLoop) => StepsToReturn(pc') < StepsToReturn(pc)]_vars
    /\ []((~running /\ InLoop) => StepsToReturn(pc) <= 5)

\* the stop arrived during a polling slice of the Hold phase, and the loop returned
\* without showing anything more
C13_Witness ==
    /\ stop_pc = "hold_sleep"
    /\ pc = "idle"
    /\ after_stop = <<0, 0, 1>>
    /\ labels[Len(labels)] = "Hold"

(***************************************************************************)
(* The Hold phase.                                                         *)
(***************************************************************************)
\* the positions of the polling loop of lines 131-134
HoldPositions == {"hold_while", "hold_check", "hold_sleep"}

ExhalePositions == {"exhale_render", "exhale_sleep", "exhale_check"}

\* the last n headings shown
LastLabels(n) == SubSeq(labels, Len(labels) - n + 1, Len(labels))

\* C14: the Hold phase is entered, and its heading shown, exactly when hold_time > 0;
\* with hold_time = 0 the Exhale heading and frames follow the Inhale phase
\* directly; during the Hold phase no frame is shown, every suspension of 0.1 s is
\* preceded by a read of the flag, and the phase ends only when the elapsed time
\* has reached hold_time or the flag was read as down.
C14_HoldPhase ==
    /\ [](pc \in HoldPositions =>
            (RatLess(Zero, hold_time) /\ labels[Len(labels)] = "Hold"))
    /\ [](pc \in ExhalePositions =>
            IF RatLess(Zero, hold_time)
            THEN LastLabels(3) = <<"Inhale", "Hold", "Exhale">>
            ELSE LastLabels(2) = <<"Inhale", "Exhale">>)
    /\ [][(pc = "hold_if" /\ pc' # pc) =>
            IF RatLess(Zero, hold_time)
            THEN pc' = "hold_while" /\ labels' = Append(labels, "Hold")
            ELSE pc' = "after_hold" /\ labels' = labels]_vars
    /\ [][(pc \in HoldPositions) => (frames' = frames)]_vars
    /\ [][(pc' = "hold_sleep" /\ pc # "hold_sleep") =>
            (pc = "hold_check" /\ running)]_vars
    /\ [][(pc \in HoldPositions /\ pc' \notin HoldPositions) =>
            /\ pc' = "after_hold"
            /\ \/ pc = "hold_while" /\ ~RatLess(elapsed, hold_time)
               \/ pc = "hold_check" /\ ~running]_vars

\* a Hold phase has run its full time with the flag up, between the last Inhale
\* frame and the Exhale phase
C14_Witness ==
    /\ pc = "after_hold"
    /\ running
    /\ labels = <<"Inhale", "Hold">>
    /\ ~RatLess(elapsed, hold_time)
    /\ Len(frames) = Steps + 1

(***************************************************************************)
(* Progress from frame to frame.                                           *)
(***************************************************************************)
\* C15: in every execution, cancelled and failed ones included, every progress value
\* shown lies in [0, 1], and of two consecutive frames of the same phase the second
\* is exactly 1/20 above the first during Inhale and exactly 1/20 below it during
\* Exhale.
C15_StepWithinPhase ==
    \A k \in 1..Len(frames) :
        /\ ~RatLess(frames[k].progress, Zero)
        /\ ~RatLess(One, frames[k].progress)
        /\ (k < Len(frames) /\ frames[k].phase = frames[k + 1].phase) =>
               IF frames[k].phase = "inhale"
               THEN frames[k + 1].progress = RatAdd(frames[k].progress, Rat(1, Steps))
               ELSE frames[k].progress = RatAdd(frames[k + 1].progress, Rat(1, Steps))

\* a run has failed in its Exhale phase after three Exhale frames
C15_Witness ==
    /\ failed = Steps + 4
    /\ pc = "idle"
    /\ Len(frames) = Steps + 4
    /\ frames[Steps + 4].phase = "exhale"
    /\ frames[Steps + 4].progress = Rat(18, 20)

(***************************************************************************)
(* The boundary values of a phase.                                         *)
(***************************************************************************)
\* how many frames of the c-th cycle of this run show `progress` in `phase`; every
\* cycle before the last one of a run is whole
CountShown(phase, progress, c) ==
    Cardinality({k \in ((c - 1) * FramesPerCycle + 1)..Len(frames) :
                    /\ k <= c * FramesPerCycle
                    /\ frames[k].phase = phase
                    /\ frames[k].progress = progress})

ShownOnce(phase, c) == CountShown(phase, Zero, c) = 1 /\ CountShown(phase, One, c) = 1

\* C16 as stated: whenever the loop has left an Inhale phase or an Exhale phase, the
\* frames of that phase show progress 0 exactly once and progress 1 exactly once.
C16_BoundariesOncePerPhase ==
    /\ pc = "after_inhale" => ShownOnce("inhale", cycle)
    /\ (pc = "while" /\ cycle >= 1) => ShownOnce("exhale", cycle)

\* C16 as amended: whenever the loop has left an Inhale phase or an Exhale phase with
\* the flag still up, the frames of that phase show progress 0 exactly once and
\* progress 1 exactly once; in every phase, cut short or not, each of the two values
\* is shown at most once.
C16_BoundariesOncePerWholePhase ==
    /\ (pc = "after_inhale" /\ running) => ShownOnce("inhale", cycle)
    /\ (pc = "while" /\ cycle >= 1 /\ running) => ShownOnce("exhale", cycle)
    /\ \A c \in 1..MaxCycles, phase \in {"inhale", "exhale"} :
           /\ CountShown(phase, Zero, c) <= 1
           /\ CountShown(phase, One, c) <= 1

\* the second cycle is whole, and the flag is still up
C16_Witness ==
    /\ pc = "while"
    /\ cycle = 2
    /\ running
    /\ Len(frames) = 2 * FramesPerCycle
    /\ ShownOnce("exhale", 2)

(***************************************************************************)
(* What the loop was handed.                                               *)
(***************************************************************************)
\* the durations the widgets would give now (lines 41-58)
WidgetDurations ==
    LET n == Normalize(widgets.inhale, widgets.exhale, widgets.hold)
    IN  ToDurations(n.inhale, n.exhale, n.hold, widgets.rate)

\* C17: while the loop is active no step, of the loop or of the input side, changes
\* the three durations and the style the loop was handed; every suspension of the
\* for loops is a twentieth of the handed duration of its phase, and every frame of
\* the run is drawn in the handed style.
C17_HandedConfigurationKept ==
    /\ [][InLoop => UNCHANGED <<inhale_time, hold_time, exhale_time, viz_style>>]_vars
    /\ [][(pc = "inhale_sleep" /\ pc' # pc) =>
            (slept' = RatAdd(slept, RatDivInt(inhale_time, Steps)))]_vars
    /\ [][(pc = "exhale_sleep" /\ pc' # pc) =>
            (slept' = RatAdd(slept, RatDivInt(exhale_time, Steps)))]_vars
    /\ [](InLoop => \A k \in 1..Len(frames) : frames[k].style = viz_style)

\* in the second cycle, with every widget moved away from what the loop was handed
C17_Witness ==
    /\ pc = "exhale_check"
    /\ cycle = 2
    /\ Len(frames) > FramesPerCycle
    /\ widgets.style # viz_style
    /\ WidgetDurations.inhale # inhale_time
    /\ WidgetDurations.hold # hold_time
    /\ WidgetDurations.exhale # exhale_time

(***************************************************************************)
(* The ranges of the normalised percentages.                               *)
(***************************************************************************)
\* C18 as stated: after normalisation inhale_percent and exhale_percent lie in
\* 10..80 and hold_percent in 0..80, the ranges of the three number inputs.
C18_NormalizedInWidgetRanges ==
    (pc \in {"normalized", "timed"}) =>
        /\ inhale_percent \in MinPhase..MaxPhase
        /\ exhale_percent \in MinPhase..MaxPhase
        /\ hold_percent \in MinHold..MaxHold

\* C18 as amended: after normalisation inhale_percent and exhale_percent lie in
\* 5..88 and hold_percent in 0..81; when the widget values already sum to 100 they
\* are kept, and so lie in 10..80 and 0..80.
C18_NormalizedInScaledRanges ==
    (pc \in {"normalized", "timed"}) =>
        /\ inhale_percent \in 5..88
        /\ exhale_percent \in 5..88
        /\ hold_percent \in MinHold..81
        /\ (total_percent = 100) =>
               /\ inhale_percent \in MinPhase..MaxPhase
               /\ exhale_percent \in MinPhase..MaxPhase
               /\ hold_percent \in MinHold..MaxHold

\* (77, 10, 80) has been normalised to (46, 5, 49): exhale below 10
C18_Witness ==
    /\ pc = "normalized"
    /\ total_percent = 167
    /\ inhale_percent = 46
    /\ exhale_percent = 5
    /\ hold_percent = 49

(***************************************************************************)
(* Consecutive frames of a run.                                            *)
(***************************************************************************)
\* C19: two frames shown one after the other in a run either belong to the same
\* phase and differ in progress by 1/20, or belong to different phases and have the
\* same progress: 1 from the last Inhale frame to the first Exhale frame, 0 from the
\* last Exhale frame to the first Inhale frame of the next cycle.
C19_NoJumpBetweenFrames ==
    \A k \in 1..(Len(frames) - 1) :
        LET a == frames[k]
            b == frames[k + 1]
        IN  IF a.phase = b.phase
            THEN \/ b.progress = RatAdd(a.progress, Rat(1, Steps))
                 \/ a.progress = RatAdd(b.progress, Rat(1, Steps))
            ELSE /\ a.progress = b.progress
                 /\ a.progress = (IF a.phase = "inhale" THEN One ELSE Zero)

\* a run has passed from Inhale to Exhale and from Exhale to the next Inhale
C19_Witness ==
    /\ Len(frames) > FramesPerCycle + 1
    /\ frames[FramesPerPhase].phase = "inhale"
    /\ frames[FramesPerPhase + 1].phase = "exhale"
    /\ frames[FramesPerCycle].phase = "exhale"
    /\ frames[FramesPerCycle + 1].phase = "inhale"
    /\ frames[FramesPerCycle + 2].progress = Rat(1, Steps)

(***************************************************************************)
(* How far the normalised percentages are from the proportional shares.    *)
(***************************************************************************)
\* C20: when the sum s of the widget values is not 100, hold' is at least the share
\* hold * 100 / s and less than that share plus 2, hold' exceeds the floor of the
\* share by 0, 1 or 2, inhale' and exhale' are at most their shares and at least 5;
\* the durations of Inhale and Exhale are positive.
C20_HoldAboveShare ==
    /\ [][(pc = "input" /\ pc' = "normalized"
           /\ inhale_percent + exhale_percent + hold_percent # 100) =>
            LET s == inhale_percent + exhale_percent + hold_percent
            IN  /\ hold_percent' * s >= hold_percent * 100
                /\ (hold_percent' - 2) * s < hold_percent * 100
                /\ hold_percent' - ((hold_percent * 100) \div s) \in {0, 1, 2}
                /\ inhale_percent' * s <= inhale_percent * 100
                /\ exhale_percent' * s <= exhale_percent * 100
                /\ inhale_percent' >= 5
                /\ exhale_percent' >= 5]_vars
    /\ []((pc = "timed") => (RatLess(Zero, inhale_time) /\ RatLess(Zero, exhale_time)))

\* (10, 10, 1) has been normalised to (47, 47, 6): hold two above the floor of its
\* share 100/21
C20_Witness ==
    /\ pc = "normalized"
    /\ total_percent = 21
    /\ inhale_percent = 47
    /\ exhale_percent = 47
    /\ hold_percent = 6

====
